---------------------------- MODULE Spec2Model ----------------------------
(***************************************************************************)
(* State-machine model of openni2_camera/src/camera.cpp: the per-sensor    *)
(* stream managers (SensorStreamManagerBase, SensorStreamManager,          *)
(* DepthSensorStreamManager) and CameraImpl::configure.                    *)
(*                                                                         *)
(* manager[s] is CameraImpl's rgb_sensor_ / depth_sensor_ / ir_sensor_ for *)
(* s = "COLOR" / "DEPTH" / "IR".  The OpenNI device and its streams are    *)
(* the environment: every call whose Status the program reads takes its    *)
(* outcome as an input of the action that makes the call.                  *)
(***************************************************************************)
EXTENDS Integers, Sequences, FiniteSets, TLC

\* ------------------------------------------------------------- bounds
\* Total number of subscribers connected over all topics at one time.
MaxSubscribers == 1
\* The number of sensors (of color, depth, infrared) a device has.
MaxSensors == 2
\* Total number of subscribers of the depth topics in SpecDepth.
MaxDepthSubscribers == 2

\* --------------------------------------------------- program constants
\* endConfigure: int max_trials = 1;
max_trials == 1

SENSOR_COLOR == "COLOR"
SENSOR_DEPTH == "DEPTH"
SENSOR_IR == "IR"
Sensors == {SENSOR_COLOR, SENSOR_DEPTH, SENSOR_IR}

IMAGE_REGISTRATION_OFF == "OFF"
IMAGE_REGISTRATION_DEPTH_TO_COLOR == "DEPTH_TO_COLOR"

PixelFormats ==
  {"DEPTH_1_MM", "DEPTH_100_UM", "SHIFT_9_2", "SHIFT_9_3",
   "RGB888", "YUV422", "GRAY8", "GRAY16", "JPEG"}

\* nh_private.param defaults of rgb_frame_id and depth_frame_id
rgb_frame_id == "camera_rgb_optical_frame"
depth_frame_id == "camera_depth_optical_frame"

createVideoMode(x, y, fps, format) ==
  [x |-> x, y |-> y, fps |-> fps, format |-> format]

\* buildResolutionMap: the keys a request of this model may name, and the
\* three constructor defaults.
resolutions_ ==
  [k \in {"Camera_RGB_320x240_30Hz", "Camera_RGB_640x480_30Hz",
          "Camera_DEPTH_640x480_30Hz", "Camera_DISPARITY_640x480_30Hz",
          "Camera_IR_320x240_30Hz", "Camera_IR_640x480_30Hz"} |->
     CASE k = "Camera_RGB_320x240_30Hz" -> createVideoMode(320, 240, 30, "RGB888")
       [] k = "Camera_RGB_640x480_30Hz" -> createVideoMode(640, 480, 30, "RGB888")
       [] k = "Camera_DEPTH_640x480_30Hz" -> createVideoMode(640, 480, 30, "DEPTH_1_MM")
       [] k = "Camera_DISPARITY_640x480_30Hz" -> createVideoMode(640, 480, 30, "SHIFT_9_2")
       [] k = "Camera_IR_320x240_30Hz" -> createVideoMode(320, 240, 30, "RGB888")
       [] k = "Camera_IR_640x480_30Hz" -> createVideoMode(640, 480, 30, "RGB888")]

\* The default mode each manager is constructed with (CameraImpl::CameraImpl).
DefaultKey(type) ==
  CASE type = SENSOR_COLOR -> "Camera_RGB_640x480_30Hz"
    [] type = SENSOR_DEPTH -> "Camera_DEPTH_640x480_30Hz"
    [] type = SENSOR_IR -> "Camera_IR_640x480_30Hz"

\* The resolution keys a request may carry for a sensor (cfg.rgb_resolution,
\* cfg.depth_resolution, cfg.ir_resolution).
RequestKeys(type) ==
  CASE type = SENSOR_COLOR -> {"Camera_RGB_320x240_30Hz", "Camera_RGB_640x480_30Hz"}
    [] type = SENSOR_DEPTH -> {"Camera_DEPTH_640x480_30Hz", "Camera_DISPARITY_640x480_30Hz"}
    [] type = SENSOR_IR -> {"Camera_IR_320x240_30Hz", "Camera_IR_640x480_30Hz"}

\* The modes a stream may be in when the program has not (successfully) set
\* one: a freshly created stream, or a stream whose setVideoMode was rejected.
NativeModes(type) ==
  CASE type = SENSOR_COLOR -> {createVideoMode(320, 240, 30, "RGB888")}
    [] type = SENSOR_DEPTH -> {createVideoMode(320, 240, 30, "DEPTH_100_UM")}
    [] type = SENSOR_IR -> {createVideoMode(320, 240, 30, "GRAY16")}

\* ------------------------------------------------ the SDK's VideoStream
\* A VideoStream object: valid (it holds a stream handle), started, whether
\* the manager is registered as its NewFrameListener, and its video mode.
NoStream ==
  [valid |-> FALSE, started |-> FALSE, listener |-> FALSE,
   mode |-> createVideoMode(0, 0, 0, "GRAY8")]

\* stream_.create(device_, type): ok is the device's answer, native the mode
\* the new stream comes up in.  A created stream replaces the object's handle
\* without destroying the one it held.
StreamCreate(st, ok, native) ==
  IF ok THEN [valid |-> TRUE, started |-> FALSE, listener |-> FALSE, mode |-> native]
  ELSE st

\* The number of handles the device holds for a sensor after create/destroy.
HandlesAfterCreate(h, ok) == IF ok THEN h + 1 ELSE h
HandlesAfterDestroy(h, st) == IF st.valid THEN h - 1 ELSE h

StreamDestroy(st) == NoStream

StreamAddListener(st) == IF st.valid THEN [st EXCEPT !.listener = TRUE] ELSE st
StreamRemoveListener(st) == [st EXCEPT !.listener = FALSE]

\* stream_.start(): STATUS_OK iff the stream is valid and the device accepts.
StartStatus(st, ok) == st.valid /\ ok
StreamStart(st, ok) ==
  IF StartStatus(st, ok) THEN [st EXCEPT !.started = TRUE] ELSE st

StreamStop(st) == [st EXCEPT !.started = FALSE]

\* stream_.setVideoMode(mode): on STATUS_OK the stream is in mode; on a
\* rejection it is in the mode `left` the device left it in.
SetVideoModeStatus(st, ok) == st.valid /\ ok
StreamSetVideoMode(st, mode, ok, left) ==
  IF ~st.valid THEN st
  ELSE IF ok THEN [st EXCEPT !.mode = mode]
  ELSE [st EXCEPT !.mode = left]

\* The modes a rejected setVideoMode may leave a stream in.
LeftModes(type, st) == {st.mode} \cup NativeModes(type)

\* ------------------------------------------------------ the managers
Base == "SensorStreamManagerBase"
Generic == "SensorStreamManager"
Depth == "DepthSensorStreamManager"

\* The publishers of a manager (image_transport::CameraPublisher members) and
\* the null active_publisher_.
NullPublisher == "0"
Publishers(class) ==
  CASE class = Base -> {}
    [] class = Generic -> {"publisher_"}
    [] class = Depth -> {"publisher_", "disparity_publisher_",
                         "depth_registered_publisher_",
                         "disparity_registered_publisher_"}

\* new SensorStreamManagerBase()
NewSensorStreamManagerBase == [class |-> Base]

\* SensorStreamManager::SensorStreamManager.  was_running_ is not in the
\* initialiser list: its value after construction is any boolean.  hw holds
\* the device's answers: create, native (the created stream's mode), set and
\* left (the default mode's setVideoMode).
NewSensorStreamManager(type, frame_id, was_running, hw) ==
  LET s0 == StreamCreate(NoStream, hw.create, hw.native)
      s1 == StreamAddListener(s0)
      s2 == StreamSetVideoMode(s1, resolutions_[DefaultKey(type)], hw.set, hw.left)
  IN [class |-> Generic, type |-> type, frame_id_ |-> frame_id,
      running_ |-> FALSE, was_running_ |-> was_running, stream_ |-> s2]

\* DepthSensorStreamManager::DepthSensorStreamManager
NewDepthSensorStreamManager(was_running, hw) ==
  [c \in {"class", "type", "frame_id_", "running_", "was_running_", "stream_",
          "active_publisher_", "rgb_frame_id_", "depth_frame_id_"} |->
     CASE c = "class" -> Depth
       [] c = "active_publisher_" -> NullPublisher
       [] c = "rgb_frame_id_" -> rgb_frame_id
       [] c = "depth_frame_id_" -> depth_frame_id
       [] OTHER -> NewSensorStreamManager(SENSOR_DEPTH, depth_frame_id, was_running, hw)[c]]

\* A faulty beginConfigure that records the running state and leaves the
\* stream started.
beginConfigure_NoStop(m) ==
  IF m.class = Base THEN [ret |-> FALSE, m |-> m]
  ELSE [ret |-> TRUE,
        m |-> [m EXCEPT !.was_running_ = m.running_, !.running_ = FALSE]]

\* A faulty beginConfigure that stops the stream without recording that it
\* was running.
beginConfigure_ForgetsRunning(m) ==
  IF m.class = Base THEN [ret |-> FALSE, m |-> m]
  ELSE [ret |-> TRUE,
        m |-> [m EXCEPT !.was_running_ = FALSE,
                        !.stream_ = IF m.running_ THEN StreamStop(@) ELSE @,
                        !.running_ = FALSE]]

\* SensorStreamManagerBase::beginConfigure / SensorStreamManager::beginConfigure
beginConfigure(m) ==
  IF m.class = Base THEN [ret |-> FALSE, m |-> m]
  ELSE [ret |-> TRUE,
        m |-> [m EXCEPT !.was_running_ = m.running_,
                        !.stream_ = IF m.running_ THEN StreamStop(@) ELSE @,
                        !.running_ = FALSE]]

\* A faulty tryConfigureVideoMode that does not set the old mode again after
\* a rejection.
tryConfigureVideoMode_NoRevert(m, mode, hw) ==
  LET s1 == StreamSetVideoMode(m.stream_, mode, hw.set, hw.left)
  IN [ret |-> SetVideoModeStatus(m.stream_, hw.set), log |-> "none",
      m |-> [m EXCEPT !.stream_ = s1]]

\* SensorStreamManager::tryConfigureVideoMode.  hw: set, left (the answer to
\* setVideoMode(mode)), revert, left2 (the answer to setVideoMode(old)).
\* log is "error" when the old mode could not be recovered.
tryConfigureVideoMode(m, mode, hw) ==
  LET old == m.stream_.mode
      s1 == StreamSetVideoMode(m.stream_, mode, hw.set, hw.left)
      s2 == StreamSetVideoMode(s1, old, hw.revert, hw.left2)
  IN IF SetVideoModeStatus(m.stream_, hw.set)
     THEN [ret |-> TRUE, log |-> "none", m |-> [m EXCEPT !.stream_ = s1]]
     ELSE [ret |-> FALSE,
           log |-> IF SetVideoModeStatus(s1, hw.revert) THEN "none" ELSE "error",
           m |-> [m EXCEPT !.stream_ = s2]]

\* A faulty recovery pass that creates the new stream without destroying the
\* old one.
RecoveryTrial_NoDestroy(st, h, o) ==
  LET s1 == StreamRemoveListener(st)
      s3 == StreamCreate(s1, o.create, o.native)
      h2 == HandlesAfterCreate(h, o.create)
      s4 == StreamAddListener(s3)
  IN [stream |-> StreamStart(s4, o.start), handles |-> h2,
      rc |-> StartStatus(s4, o.start)]

\* One pass of endConfigure's recovery loop body: removeNewFrameListener,
\* destroy, create, addNewFrameListener, start.  h counts the device's live
\* handles of the sensor; o holds the device's answers create, native, start.
RecoveryTrial(st, h, o) ==
  LET s1 == StreamRemoveListener(st)
      h1 == HandlesAfterDestroy(h, s1)
      s2 == StreamDestroy(s1)
      s3 == StreamCreate(s2, o.create, o.native)
      h2 == HandlesAfterCreate(h1, o.create)
      s4 == StreamAddListener(s3)
  IN [stream |-> StreamStart(s4, o.start), handles |-> h2,
      rc |-> StartStatus(s4, o.start)]

\* A faulty recovery loop that gives up without a trial.
RecoveryLoop_GivesUp(st, h, trials, rc, hw) ==
  [stream |-> st, handles |-> h, trials |-> trials, rc |-> rc]

\* for(int trials = 0; trials < max_trials && rc != STATUS_OK; ++trials)
\* rc is TRUE for STATUS_OK; hw[trials + 1] holds the answers of a trial.
RECURSIVE RecoveryLoop(_, _, _, _, _)
RecoveryLoop(st, h, trials, rc, hw) ==
  IF trials < max_trials /\ ~rc
  THEN LET t == RecoveryTrial(st, h, hw[trials + 1])
       IN RecoveryLoop(t.stream, t.handles, trials + 1, t.rc, hw)
  ELSE [stream |-> st, handles |-> h, trials |-> trials, rc |-> rc]

\* A faulty endConfigure that restarts the stream whether or not it ran
\* before beginConfigure.
SensorEndConfigure_AlwaysStarts(m, h, hw) ==
  LET rc0 == StartStatus(m.stream_, hw.start)
      s0 == StreamStart(m.stream_, hw.start)
      r == IF rc0 THEN [stream |-> s0, handles |-> h, trials |-> 0, rc |-> TRUE]
           ELSE RecoveryLoop(s0, h, 0, rc0, hw.trials)
  IN [m |-> [m EXCEPT !.stream_ = r.stream,
                      !.running_ = IF r.rc THEN TRUE ELSE @],
      handles |-> r.handles,
      starts |-> 1 + r.trials,
      trials |-> r.trials,
      rc |-> IF r.rc THEN "ok" ELSE "fail",
      log |-> IF rc0 THEN "none" ELSE IF r.rc THEN "recovered" ELSE "error"]

\* SensorStreamManager::endConfigure.  hw: start (the answer to the first
\* start) and trials (the answers of the recovery trials).  Returns the
\* manager, the device's handle count, and what the call did: starts (the
\* start calls issued), trials (recovery passes), rc (the last start's
\* status, "none" when no start was issued) and log (the last ROS message:
\* "error", "recovered" or "none").
SensorEndConfigure(m, h, hw) ==
  IF ~m.was_running_
  THEN [m |-> m, handles |-> h, starts |-> 0, trials |-> 0, rc |-> "none",
        log |-> "none"]
  ELSE LET rc0 == StartStatus(m.stream_, hw.start)
           s0 == StreamStart(m.stream_, hw.start)
           r == IF rc0 THEN [stream |-> s0, handles |-> h, trials |-> 0, rc |-> TRUE]
                ELSE RecoveryLoop(s0, h, 0, rc0, hw.trials)
       IN [m |-> [m EXCEPT !.stream_ = r.stream,
                           !.running_ = IF r.rc THEN TRUE ELSE @],
           handles |-> r.handles,
           starts |-> 1 + r.trials,
           trials |-> r.trials,
           rc |-> IF r.rc THEN "ok" ELSE "fail",
           log |-> IF rc0 THEN "none" ELSE IF r.rc THEN "recovered" ELSE "error"]

\* SensorStreamManager::onSubscriptionChanged.  n is
\* topic.getNumSubscribers(), ok the device's answer to start.
SensorOnSubscriptionChanged(m, n, ok) ==
  IF n > 0
  THEN IF ~m.running_
       THEN [m |-> [m EXCEPT !.stream_ = StreamStart(@, ok),
                             !.running_ = StartStatus(m.stream_, ok)],
             rc |-> IF StartStatus(m.stream_, ok) THEN "ok" ELSE "fail"]
       ELSE [m |-> m, rc |-> "none"]
  ELSE [m |-> [m EXCEPT !.stream_ = StreamStop(@), !.running_ = FALSE],
        rc |-> "none"]

\* A faulty updateActivePublisher that picks the publishers without looking
\* at the registration mode.
updateActivePublisher_IgnoresRegistration(m, registration) ==
  LET format == m.stream_.mode.format
  IN [m EXCEPT !.frame_id_ = m.depth_frame_id_,
               !.active_publisher_ =
                  IF format = "DEPTH_1_MM" THEN "publisher_"
                  ELSE IF format = "SHIFT_9_2" THEN "disparity_publisher_"
                  ELSE NullPublisher]

\* DepthSensorStreamManager::updateActivePublisher.  registration is
\* device_.getImageRegistrationMode().
updateActivePublisher(m, registration) ==
  LET reg == registration = IMAGE_REGISTRATION_DEPTH_TO_COLOR
      p_depth == IF reg THEN "depth_registered_publisher_" ELSE "publisher_"
      p_disparity == IF reg THEN "disparity_registered_publisher_"
                     ELSE "disparity_publisher_"
      format == m.stream_.mode.format
  IN [m EXCEPT !.frame_id_ = IF reg THEN m.rgb_frame_id_ ELSE m.depth_frame_id_,
               !.active_publisher_ =
                  IF format = "DEPTH_1_MM" THEN p_depth
                  ELSE IF format = "SHIFT_9_2" THEN p_disparity
                  ELSE NullPublisher]

\* A faulty depth onSubscriptionChanged that starts the stream and never
\* stops it.
DepthOnSubscriptionChanged_NeverStops(m, all_clients, ok, registration) ==
  LET m1 == IF ~m.running_ /\ all_clients > 0
            THEN [m EXCEPT !.stream_ = StreamStart(@, ok),
                           !.running_ = StartStatus(m.stream_, ok)]
            ELSE m
  IN [m |-> IF m1.running_ THEN updateActivePublisher(m1, registration) ELSE m1,
      rc |-> IF ~m.running_ /\ all_clients > 0
             THEN (IF StartStatus(m.stream_, ok) THEN "ok" ELSE "fail")
             ELSE "none",
      updated |-> m1.running_]

\* DepthSensorStreamManager::onSubscriptionChanged.  all_clients is the sum
\* of the four publishers' getNumSubscribers().
DepthOnSubscriptionChanged(m, all_clients, ok, registration) ==
  LET m1 == IF ~m.running_ /\ all_clients > 0
            THEN [m EXCEPT !.stream_ = StreamStart(@, ok),
                           !.running_ = StartStatus(m.stream_, ok)]
            ELSE IF m.running_ /\ all_clients = 0
            THEN [m EXCEPT !.stream_ = StreamStop(@), !.running_ = FALSE]
            ELSE m
  IN [m |-> IF m1.running_ THEN updateActivePublisher(m1, registration) ELSE m1,
      rc |-> IF ~m.running_ /\ all_clients > 0
             THEN (IF StartStatus(m.stream_, ok) THEN "ok" ELSE "fail")
             ELSE "none",
      updated |-> m1.running_]

\* A faulty depth endConfigure that leaves the active publisher as it was.
DepthEndConfigure_NoUpdate(m, h, hw, registration) ==
  LET r == SensorEndConfigure(m, h, hw)
  IN [m |-> r.m, handles |-> r.handles, starts |-> r.starts,
      trials |-> r.trials, rc |-> r.rc, log |-> r.log, updated |-> FALSE]

\* DepthSensorStreamManager::endConfigure.  updated tells whether
\* updateActivePublisher was called (as it does in the result of
\* DepthOnSubscriptionChanged).
DepthEndConfigure(m, h, hw, registration) ==
  LET r == SensorEndConfigure(m, h, hw)
  IN [m |-> IF r.m.running_ THEN updateActivePublisher(r.m, registration)
            ELSE r.m,
      handles |-> r.handles, starts |-> r.starts, trials |-> r.trials,
      rc |-> r.rc, log |-> r.log, updated |-> r.m.running_]

\* SensorStreamManager::publish / DepthSensorStreamManager::publish: the
\* publisher the record is handed to (NullPublisher: the record is dropped).
publish(m) ==
  IF m.class = Depth THEN m.active_publisher_ ELSE "publisher_"

\* ---------------------------------------------------------- the state
VARIABLES
  hasSensor,      \* device_.hasSensor(type)
  supported,      \* device_.isImageRegistrationModeSupported(DEPTH_TO_COLOR)
  registration,   \* device_.getImageRegistrationMode()
  handles,        \* per sensor: the stream handles the device holds
  manager,        \* rgb_sensor_, depth_sensor_, ir_sensor_
  numSubscribers, \* per publisher: getNumSubscribers()
  pc,             \* where CameraImpl::configure stands
  level,          \* configure's level: the bits kept for the round (KeptBits)
  cfg,            \* configure's cfg: the field it hands back to the caller
  request,        \* cfg.depth_registration as the caller passed it
  exception,      \* a MethodNotSupportedException left configure
  calls,          \* the manager and device calls of the current round
  frame           \* the frame callback in progress on the SDK's thread

vars ==
  <<hasSensor, supported, registration, handles, manager, numSubscribers, pc,
    level, cfg, request, exception, calls, frame>>

device == <<hasSensor, supported>>
round == <<pc, level, cfg, request, exception, calls>>

Channels ==
  {<<s, p>> : s \in Sensors,
              p \in {"publisher_", "disparity_publisher_",
                     "depth_registered_publisher_",
                     "disparity_registered_publisher_"}}

RECURSIVE Sum(_, _)
Sum(f, S) ==
  IF S = {} THEN 0
  ELSE LET x == CHOOSE y \in S : TRUE IN f[x] + Sum(f, S \ {x})

\* A faulty count that looks at publisher_ only.
Clients_PrimaryOnly(subs, s, class) ==
  IF class = Base THEN 0 ELSE subs[<<s, "publisher_">>]

\* The sum of getNumSubscribers() over a manager's publishers.
Clients(subs, s, class) == Sum(subs, {<<s, p>> : p \in Publishers(class)})

\* The VideoStream a manager holds (the base class holds none).
StreamOf(m) == IF m.class = Base THEN NoStream ELSE m.stream_

\* The answers the device may give a constructor, a recovery trial, an
\* endConfigure and a tryConfigureVideoMode.
CreateAnswers(type) ==
  [create : BOOLEAN, native : NativeModes(type), set : BOOLEAN,
   left : NativeModes(type)]
TrialAnswers(type) ==
  [create : BOOLEAN, native : NativeModes(type), start : BOOLEAN]
RestartAnswers(type) ==
  [start : BOOLEAN, trials : [1..max_trials -> TrialAnswers(type)]]
ModeAnswers(type, st) ==
  [set : BOOLEAN, left : LeftModes(type, st), revert : BOOLEAN,
   left2 : LeftModes(type, st)]

Idle == [sensor |-> "none", at |-> "idle"]
NoFrame == [sensor |-> "none", at |-> "idle", frame_id |-> "", publisher |-> ""]

\* CameraImpl::CameraImpl: a manager per sensor the device has, the base
\* class for the others.
NewManager(type, has, was_running, hw) ==
  IF ~has THEN NewSensorStreamManagerBase
  ELSE IF type = SENSOR_DEPTH THEN NewDepthSensorStreamManager(was_running, hw)
  ELSE NewSensorStreamManager(
         type, IF type = SENSOR_COLOR THEN rgb_frame_id ELSE depth_frame_id,
         was_running, hw)

Init ==
  /\ hasSensor \in [Sensors -> BOOLEAN]
  /\ Cardinality({s \in Sensors : hasSensor[s]}) <= MaxSensors
  /\ supported \in BOOLEAN
  /\ registration = IMAGE_REGISTRATION_OFF
  /\ \E was \in [Sensors -> BOOLEAN] :
     \E hw \in [COLOR : CreateAnswers(SENSOR_COLOR),
                DEPTH : CreateAnswers(SENSOR_DEPTH),
                IR : CreateAnswers(SENSOR_IR)] :
       /\ manager = [s \in Sensors |-> NewManager(s, hasSensor[s], was[s], hw[s])]
       /\ handles = [s \in Sensors |->
                       IF hasSensor[s] THEN HandlesAfterCreate(0, hw[s].create) ELSE 0]
  /\ numSubscribers = [c \in Channels |-> 0]
  /\ pc = Idle
  /\ level = 0
  /\ cfg = [depth_registration |-> FALSE]
  /\ request = FALSE
  /\ exception = FALSE
  /\ calls = <<>>
  /\ frame = NoFrame

\* ------------------------------------------------- subscription events
\* The virtual call callback_ makes: onSubscriptionChanged of the manager's
\* class, with the subscriber counts as they are when the callback runs.
onSubscriptionChanged(m, s, subs, ok, reg) ==
  IF m.class = Depth
  THEN DepthOnSubscriptionChanged(m, Clients(subs, s, Depth), ok, reg)
  ELSE SensorOnSubscriptionChanged(m, subs[<<s, "publisher_">>], ok)

\* The subscriber counts after a subscriber connects to (d = 1) or
\* disconnects from (d = -1) publisher p of sensor s.
Connected(subs, s, p, d) == [subs EXCEPT ![<<s, p>>] = @ + d]

\* The connections and disconnections that can happen next, with at most
\* cap subscribers in all.
CanConnectUpTo(s, p, d, cap) ==
  /\ manager[s].class # Base
  /\ p \in Publishers(manager[s].class)
  /\ numSubscribers[<<s, p>>] + d >= 0
  /\ Sum(numSubscribers, Channels) + d <= cap

CanConnect(s, p, d) == CanConnectUpTo(s, p, d, MaxSubscribers)

\* A subscriber connects or disconnects and the publisher's
\* SubscriberStatusCallback runs.
SubscriptionChangedUpTo(s, p, d, ok, cap) ==
  /\ CanConnectUpTo(s, p, d, cap)
  /\ LET subs == Connected(numSubscribers, s, p, d)
         r == onSubscriptionChanged(manager[s], s, subs, ok, registration)
     IN /\ numSubscribers' = subs
        /\ manager' = [manager EXCEPT ![s] = r.m]
  /\ UNCHANGED <<device, registration, handles, round, frame>>

SubscriptionChanged(s, p, d, ok) ==
  SubscriptionChangedUpTo(s, p, d, ok, MaxSubscribers)

\* ------------------------------------------------ CameraImpl::configure
\* A faulty order of configure's statements: the depth block first.
Program_DepthFirst ==
  <<[sensor |-> "DEPTH", at |-> "begin"],
    [sensor |-> "DEPTH", at |-> "mode"],
    [sensor |-> "DEPTH", at |-> "registration"],
    [sensor |-> "DEPTH", at |-> "settings"],
    [sensor |-> "DEPTH", at |-> "end"],
    [sensor |-> "COLOR", at |-> "begin"],
    [sensor |-> "COLOR", at |-> "mode"],
    [sensor |-> "COLOR", at |-> "settings"],
    [sensor |-> "COLOR", at |-> "end"],
    [sensor |-> "IR", at |-> "begin"],
    [sensor |-> "IR", at |-> "mode"],
    [sensor |-> "IR", at |-> "settings"],
    [sensor |-> "IR", at |-> "end"],
    [sensor |-> "device", at |-> "sync"],
    [sensor |-> "device", at |-> "return"]>>

\* The statements of configure in program order: per sensor the
\* beginConfigure test, the masked settings and endConfigure, then the
\* device's depth-color synchronisation and the return.
Program ==
  <<[sensor |-> SENSOR_COLOR, at |-> "begin"],
    [sensor |-> SENSOR_COLOR, at |-> "mode"],
    [sensor |-> SENSOR_COLOR, at |-> "settings"],
    [sensor |-> SENSOR_COLOR, at |-> "end"],
    [sensor |-> SENSOR_DEPTH, at |-> "begin"],
    [sensor |-> SENSOR_DEPTH, at |-> "mode"],
    [sensor |-> SENSOR_DEPTH, at |-> "registration"],
    [sensor |-> SENSOR_DEPTH, at |-> "settings"],
    [sensor |-> SENSOR_DEPTH, at |-> "end"],
    [sensor |-> SENSOR_IR, at |-> "begin"],
    [sensor |-> SENSOR_IR, at |-> "mode"],
    [sensor |-> SENSOR_IR, at |-> "settings"],
    [sensor |-> SENSOR_IR, at |-> "end"],
    [sensor |-> "device", at |-> "sync"],
    [sensor |-> "device", at |-> "return"]>>

Return == [sensor |-> "device", at |-> "return"]

Index(pos) == CHOOSE i \in 1..Len(Program) : Program[i] = pos

\* The statement after pos, and the statement after the if-block of the
\* sensor pos belongs to (beginConfigure returned false).
Succ(pos) == Program[Index(pos) + 1]
\* A faulty if that runs the block although beginConfigure returned false.
AfterBlock_FallsThrough(pos) == Succ(pos)

AfterBlock(pos) ==
  Program[CHOOSE i \in Index(pos) + 1..Len(Program) :
            /\ Program[i].sensor # pos.sensor
            /\ \A j \in Index(pos) + 1..i - 1 : Program[j].sensor = pos.sensor]

\* level & bit
Masked(mask, bit) == (mask \div bit) % 2 = 1

\* The values of level the model tells apart: bit 1 guards the field of
\* cfg that is handed back.  The other bits guard one setting each and
\* are drawn by the action of the if that reads them.
KeptBits == {0, 1}

\* dynamic_reconfigure calls configure(cfg, level).
Configure(mask, depth_registration) ==
  /\ pc = Idle
  /\ pc' = Program[1]
  /\ level' = mask
  /\ cfg' = [depth_registration |-> depth_registration]
  /\ request' = depth_registration
  /\ exception' = FALSE
  /\ calls' = <<>>
  /\ UNCHANGED <<device, registration, handles, manager, numSubscribers, frame>>

\* if(sensor->beginConfigure())
BeginConfigure(s) ==
  /\ pc = [sensor |-> s, at |-> "begin"]
  /\ LET r == beginConfigure(manager[s])
     IN /\ manager' = [manager EXCEPT ![s] = r.m]
        /\ pc' = IF r.ret THEN Succ(pc) ELSE AfterBlock(pc)
        /\ calls' = Append(calls, <<s, "beginConfigure", r.ret>>)
  /\ UNCHANGED <<device, registration, handles, numSubscribers, level, cfg,
                 request, exception, frame>>

\* A call of a method SensorStreamManagerBase does not override: the
\* MethodNotSupportedException leaves configure.
Throw(s, method) ==
  /\ exception' = TRUE
  /\ pc' = Return
  /\ calls' = Append(calls, <<s, method, FALSE>>)
  /\ UNCHANGED <<device, registration, handles, manager, numSubscribers, level,
                 cfg, request, frame>>

\* if((level & 8 / 16 / 32) != 0) sensor->tryConfigureVideoMode(e->second);
\* changed is the bit, key the request's resolution.
ConfigureVideoMode(s, changed, key, hw) ==
  /\ pc = [sensor |-> s, at |-> "mode"]
  /\ IF ~changed
     THEN /\ pc' = Succ(pc)
          /\ UNCHANGED <<device, registration, handles, manager, numSubscribers,
                         level, cfg, request, exception, calls, frame>>
     ELSE IF manager[s].class = Base
     THEN Throw(s, "tryConfigureVideoMode")
     ELSE /\ manager' = [manager EXCEPT ![s] =
                           tryConfigureVideoMode(@, resolutions_[key], hw).m]
          /\ pc' = Succ(pc)
          /\ UNCHANGED <<device, registration, handles, numSubscribers, level,
                         cfg, request, exception, calls, frame>>

\* The ifs on the stream's own settings, which follow one another:
\*   if((level & 2) != 0) ...->setAutoExposureEnabled(cfg.auto_exposure);
\*   if((level & 4) != 0) ...->setAutoWhiteBalanceEnabled(cfg.auto_white_balance);
\*   if((level & 64) != 0) sensor->stream().setMirroringEnabled(cfg.mirror);
\* The program never reads these settings back, so the model keeps the call
\* of stream() (it throws on the base class) and not the values; any is
\* whether one of the bits is set.
ConfigureStreamSettings(s, any) ==
  /\ pc = [sensor |-> s, at |-> "settings"]
  /\ IF any /\ manager[s].class = Base
     THEN Throw(s, "stream")
     ELSE /\ pc' = Succ(pc)
          /\ UNCHANGED <<device, registration, handles, manager, numSubscribers,
                         level, cfg, request, exception, calls, frame>>

\* A faulty registration block that does not ask the device whether it
\* supports the mode.
RegistrationFor_Unchecked(mask, depth_registration, isSupported, mode) ==
  IF ~Masked(mask, 1) THEN [mode |-> mode, cfg |-> depth_registration, set |-> FALSE]
  ELSE IF depth_registration
  THEN [mode |-> IMAGE_REGISTRATION_DEPTH_TO_COLOR, cfg |-> TRUE, set |-> TRUE]
  ELSE [mode |-> IMAGE_REGISTRATION_OFF, cfg |-> FALSE, set |-> TRUE]

\* if((level & 1) != 0) { ... } of the depth block: the registration mode
\* the device is set to (unchanged when no call is made), the
\* cfg.depth_registration left in cfg, and whether
\* setImageRegistrationMode was called.
RegistrationFor(mask, depth_registration, isSupported, mode) ==
  IF ~Masked(mask, 1) THEN [mode |-> mode, cfg |-> depth_registration, set |-> FALSE]
  ELSE IF depth_registration
  THEN IF isSupported
       THEN [mode |-> IMAGE_REGISTRATION_DEPTH_TO_COLOR, cfg |-> TRUE, set |-> TRUE]
       ELSE [mode |-> mode, cfg |-> FALSE, set |-> FALSE]
  ELSE [mode |-> IMAGE_REGISTRATION_OFF, cfg |-> FALSE, set |-> TRUE]

ConfigureRegistration ==
  /\ pc = [sensor |-> SENSOR_DEPTH, at |-> "registration"]
  /\ LET r == RegistrationFor(level, cfg.depth_registration, supported, registration)
     IN /\ registration' = r.mode
        /\ cfg' = [cfg EXCEPT !.depth_registration = r.cfg]
        /\ calls' = IF r.set
                    THEN Append(calls, <<"device", "setImageRegistrationMode", TRUE>>)
                    ELSE calls
  /\ pc' = Succ(pc)
  /\ UNCHANGED <<device, handles, manager, numSubscribers, level, request,
                 exception, frame>>

\* The virtual call sensor->endConfigure().
endConfigure(m, h, hw, reg) ==
  IF m.class = Depth THEN DepthEndConfigure(m, h, hw, reg)
  ELSE SensorEndConfigure(m, h, hw)

\* A faulty configure that gives the round up when a restart failed.
EndConfigure_AbortsOnFailure(s, hw) ==
  /\ pc = [sensor |-> s, at |-> "end"]
  /\ IF manager[s].class = Base
     THEN Throw(s, "endConfigure")
     ELSE LET r == endConfigure(manager[s], handles[s], hw, registration)
          IN /\ manager' = [manager EXCEPT ![s] = r.m]
             /\ handles' = [handles EXCEPT ![s] = r.handles]
             /\ calls' = Append(calls, <<s, "endConfigure", TRUE>>)
             /\ pc' = IF r.rc = "fail" THEN Return ELSE Succ(pc)
             /\ UNCHANGED <<device, registration, numSubscribers, level, cfg,
                            request, exception, frame>>

EndConfigure(s, hw) ==
  /\ pc = [sensor |-> s, at |-> "end"]
  /\ IF manager[s].class = Base
     THEN Throw(s, "endConfigure")
     ELSE LET r == endConfigure(manager[s], handles[s], hw, registration)
          IN /\ manager' = [manager EXCEPT ![s] = r.m]
             /\ handles' = [handles EXCEPT ![s] = r.handles]
             /\ calls' = Append(calls, <<s, "endConfigure", TRUE>>)
             /\ pc' = Succ(pc)
             /\ UNCHANGED <<device, registration, numSubscribers, level, cfg,
                            request, exception, frame>>

\* device_.setDepthColorSyncEnabled(true);
SetDepthColorSyncEnabled ==
  /\ pc = [sensor |-> "device", at |-> "sync"]
  /\ calls' = Append(calls, <<"device", "setDepthColorSyncEnabled", TRUE>>)
  /\ pc' = Return
  /\ UNCHANGED <<device, registration, handles, manager, numSubscribers, level,
                 cfg, request, exception, frame>>

\* configure returns (or the exception leaves it): cfg goes back to the
\* caller and the round's locals are gone.
ConfigureReturn ==
  /\ pc = Return
  /\ pc' = Idle
  /\ level' = 0
  /\ cfg' = [depth_registration |-> FALSE]
  /\ request' = FALSE
  /\ exception' = FALSE
  /\ calls' = <<>>
  /\ UNCHANGED <<device, registration, handles, manager, numSubscribers, frame>>

\* ------------------------------------------------------ frame callbacks
\* SensorStreamManager::onNewFrame up to the call of publish: the record is
\* built with the frame_id_ read here.  The SDK delivers the frames of a
\* started stream on its own thread, one callback at a time.
OnNewFrame(s) ==
  /\ frame = NoFrame
  /\ StreamOf(manager[s]).started /\ StreamOf(manager[s]).listener
  /\ frame' = [sensor |-> s, at |-> "converted",
               frame_id |-> manager[s].frame_id_, publisher |-> ""]
  /\ UNCHANGED <<device, registration, handles, manager, numSubscribers, round>>

\* publish(img, info): the record goes to the publisher read here.
Publish ==
  /\ frame.at = "converted"
  /\ frame' = [frame EXCEPT !.at = "published",
                            !.publisher = publish(manager[frame.sensor])]
  /\ UNCHANGED <<device, registration, handles, manager, numSubscribers, round>>

\* onNewFrame returns.
FrameDone ==
  /\ frame.at = "published"
  /\ frame' = NoFrame
  /\ UNCHANGED <<device, registration, handles, manager, numSubscribers, round>>

\* ----------------------------------------------------- specification
\* Subscription callbacks and configure run from one callback queue, one
\* at a time.
Next ==
  \/ \E s \in Sensors, p \in Publishers(Depth), d \in {-1, 1}, ok \in BOOLEAN :
       pc = Idle /\ SubscriptionChanged(s, p, d, ok)
  \/ \E mask \in KeptBits, r \in BOOLEAN : Configure(mask, r)
  \/ \E s \in Sensors : BeginConfigure(s)
  \/ \E s \in Sensors, changed \in BOOLEAN, key \in DOMAIN resolutions_ :
       /\ key \in RequestKeys(s)
       /\ \E hw \in ModeAnswers(s, StreamOf(manager[s])) :
            ConfigureVideoMode(s, changed, key, hw)
  \/ \E s \in Sensors, any \in BOOLEAN : ConfigureStreamSettings(s, any)
  \/ ConfigureRegistration
  \/ \E s \in Sensors : \E hw \in RestartAnswers(s) : EndConfigure(s, hw)
  \/ SetDepthColorSyncEnabled
  \/ ConfigureReturn

Spec == Init /\ [][Next]_vars

\* The same program with the frame callbacks of the SDK's thread, which run
\* at any time, on a device that has the depth sensor only.
InitFrames == Init /\ hasSensor = [s \in Sensors |-> s = SENSOR_DEPTH]

NextFrames ==
  \/ Next
  \/ \E s \in Sensors : OnNewFrame(s)
  \/ Publish
  \/ FrameDone

SpecFrames == InitFrames /\ [][NextFrames]_vars

\* The steps of a round of configure.
ConfigureStep ==
  \/ \E mask \in KeptBits, r \in BOOLEAN : Configure(mask, r)
  \/ \E s \in Sensors : BeginConfigure(s)
  \/ \E s \in Sensors, changed \in BOOLEAN, key \in DOMAIN resolutions_ :
       /\ key \in RequestKeys(s)
       /\ \E hw \in ModeAnswers(s, StreamOf(manager[s])) :
            ConfigureVideoMode(s, changed, key, hw)
  \/ \E s \in Sensors, any \in BOOLEAN : ConfigureStreamSettings(s, any)
  \/ ConfigureRegistration
  \/ \E s \in Sensors : \E hw \in RestartAnswers(s) : EndConfigure(s, hw)
  \/ SetDepthColorSyncEnabled
  \/ ConfigureReturn

\* The program on a device with a color and a depth sensor and no infrared
\* sensor, which has a manager of each class.  configure is one call on the
\* callback thread: once it has started, its next statement is executed.
InitFair == Init /\ hasSensor = [s \in Sensors |-> s # SENSOR_IR]

SpecFair == InitFair /\ [][Next]_vars /\ WF_vars(ConfigureStep)

\* The same program when the node serves its callbacks with more than one
\* thread: a subscription callback may run between two statements of
\* configure (camera.cpp takes no lock).
NextInterleaved ==
  \/ \E s \in Sensors, p \in Publishers(Depth), d \in {-1, 1}, ok \in BOOLEAN :
       SubscriptionChanged(s, p, d, ok)
  \/ ConfigureStep

SpecInterleaved == InitFair /\ [][NextInterleaved]_vars

\* ------------------------------------------------------ teardown
\* A faulty order of the destructor's statements: destroy first.
Teardown_DestroyFirst ==
  <<[sensor |-> SENSOR_COLOR, at |-> "~destroy"],
    [sensor |-> SENSOR_COLOR, at |-> "~removeNewFrameListener"],
    [sensor |-> SENSOR_COLOR, at |-> "~stop"],
    [sensor |-> SENSOR_COLOR, at |-> "~shutdown"],
    [sensor |-> SENSOR_DEPTH, at |-> "~destroy"],
    [sensor |-> SENSOR_DEPTH, at |-> "~removeNewFrameListener"],
    [sensor |-> SENSOR_DEPTH, at |-> "~stop"],
    [sensor |-> SENSOR_DEPTH, at |-> "~shutdown"],
    [sensor |-> SENSOR_IR, at |-> "~destroy"],
    [sensor |-> SENSOR_IR, at |-> "~removeNewFrameListener"],
    [sensor |-> SENSOR_IR, at |-> "~stop"],
    [sensor |-> SENSOR_IR, at |-> "~shutdown"],
    [sensor |-> "device", at |-> "close"],
    [sensor |-> "device", at |-> "closed"]>>

\* The statements of ~CameraImpl in program order: rgb_sensor_.reset(),
\* depth_sensor_.reset() and ir_sensor_.reset(), each running the manager's
\* destructor (removeNewFrameListener, stop, destroy, publisher_.shutdown()),
\* then device_.close().
Teardown ==
  <<[sensor |-> SENSOR_COLOR, at |-> "~removeNewFrameListener"],
    [sensor |-> SENSOR_COLOR, at |-> "~stop"],
    [sensor |-> SENSOR_COLOR, at |-> "~destroy"],
    [sensor |-> SENSOR_COLOR, at |-> "~shutdown"],
    [sensor |-> SENSOR_DEPTH, at |-> "~removeNewFrameListener"],
    [sensor |-> SENSOR_DEPTH, at |-> "~stop"],
    [sensor |-> SENSOR_DEPTH, at |-> "~destroy"],
    [sensor |-> SENSOR_DEPTH, at |-> "~shutdown"],
    [sensor |-> SENSOR_IR, at |-> "~removeNewFrameListener"],
    [sensor |-> SENSOR_IR, at |-> "~stop"],
    [sensor |-> SENSOR_IR, at |-> "~destroy"],
    [sensor |-> SENSOR_IR, at |-> "~shutdown"],
    [sensor |-> "device", at |-> "close"],
    [sensor |-> "device", at |-> "closed"]>>

Closed == [sensor |-> "device", at |-> "closed"]

TeardownIndex(pos) == CHOOSE i \in 1..Len(Teardown) : Teardown[i] = pos
TeardownSucc(pos) == Teardown[TeardownIndex(pos) + 1]
\* The first statement after the destructor of the sensor pos belongs to.
AfterDestructor(pos) ==
  Teardown[CHOOSE i \in TeardownIndex(pos) + 1..Len(Teardown) :
             /\ Teardown[i].sensor # pos.sensor
             /\ \A j \in TeardownIndex(pos) + 1..i - 1 :
                  Teardown[j].sensor = pos.sensor]

\* The node shuts down between two callbacks: ~CameraImpl starts.
DestructCamera ==
  /\ pc = Idle
  /\ pc' = Teardown[1]
  /\ UNCHANGED <<device, registration, handles, manager, numSubscribers, level,
                 cfg, request, exception, calls, frame>>

\* One statement of the destructor of sensor s's manager.
\* ~SensorStreamManagerBase() {} has none; the subscribers of a manager's
\* topics are gone once its publishers are.
Destructor(s) ==
  /\ pc.sensor = s
  /\ pc.at \in {"~removeNewFrameListener", "~stop", "~destroy", "~shutdown"}
  /\ IF manager[s].class = Base
     THEN /\ pc' = AfterDestructor(pc)
          /\ UNCHANGED <<handles, manager, numSubscribers>>
     ELSE /\ pc' = TeardownSucc(pc)
          /\ manager' = [manager EXCEPT ![s].stream_ =
               CASE pc.at = "~removeNewFrameListener" -> StreamRemoveListener(@)
                 [] pc.at = "~stop" -> StreamStop(@)
                 [] pc.at = "~destroy" -> StreamDestroy(@)
                 [] OTHER -> @]
          /\ handles' = [handles EXCEPT ![s] =
               IF pc.at = "~destroy"
               THEN HandlesAfterDestroy(@, manager[s].stream_) ELSE @]
          /\ numSubscribers' =
               IF pc.at = "~shutdown"
               THEN [c \in DOMAIN numSubscribers |->
                       IF c[1] = s THEN 0 ELSE numSubscribers[c]]
               ELSE numSubscribers
  /\ UNCHANGED <<device, registration, level, cfg, request, exception, calls,
                 frame>>

\* device_.close();
DeviceClose ==
  /\ pc = [sensor |-> "device", at |-> "close"]
  /\ pc' = Closed
  /\ UNCHANGED <<device, registration, handles, manager, numSubscribers, level,
                 cfg, request, exception, calls, frame>>

\* The program over the whole lifetime of CameraImpl, from its constructor
\* to the end of its destructor.
NextLifetime ==
  \/ \E s \in Sensors, p \in Publishers(Depth), d \in {-1, 1}, ok \in BOOLEAN :
       pc = Idle /\ SubscriptionChanged(s, p, d, ok)
  \/ ConfigureStep
  \/ DestructCamera
  \/ \E s \in Sensors : Destructor(s)
  \/ DeviceClose

SpecLifetime == Init /\ [][NextLifetime]_vars

\* The program on a device that has the depth sensor only, with up to
\* MaxDepthSubscribers subscribers spread over the four depth topics.
NextDepth ==
  \/ \E p \in Publishers(Depth), d \in {-1, 1}, ok \in BOOLEAN :
       /\ pc = Idle
       /\ SubscriptionChangedUpTo(SENSOR_DEPTH, p, d, ok, MaxDepthSubscribers)
  \/ ConfigureStep

SpecDepth == InitFrames /\ [][NextDepth]_vars

\* ------------------------------------------------------------ properties
\* The number of subscribers of manager s when the counts are subs.
AllClients(subs, s) == Clients(subs, s, manager[s].class)

\* The subscription events a manager can see: a subscriber connects to or
\* disconnects from one of its publishers (any count, not only those within
\* MaxSubscribers).
InterestEvents(s) ==
  {e \in Publishers(Depth) \X {-1, 1} :
     /\ e[1] \in Publishers(manager[s].class)
     /\ numSubscribers[<<s, e[1]>>] + e[2] >= 0}

\* C1: after an interest-change event has been handled, the stream runs
\* only if the manager's subscriber count (depth: the sum over its four
\* publishers) is above zero, and, unless the start the handler issued
\* failed, it runs if and only if that count is above zero.
C1_RunningIffSubscribed ==
  pc = Idle =>
    \A s \in Sensors :
      /\ StreamOf(manager[s]).started =>
           /\ manager[s].running_
           /\ AllClients(numSubscribers, s) > 0
      /\ \A e \in InterestEvents(s), ok \in BOOLEAN :
           LET subs == Connected(numSubscribers, s, e[1], e[2])
               r == onSubscriptionChanged(manager[s], s, subs, ok, registration)
               n == AllClients(subs, s)
           IN /\ r.m.running_ = r.m.stream_.started
              /\ r.m.running_ => n > 0
              /\ r.rc # "fail" => (r.m.running_ <=> n > 0)

\* The depth stream runs for a subscriber of one of its publishers.
C1_Witness ==
  /\ pc = Idle
  /\ manager[SENSOR_DEPTH].class = Depth
  /\ manager[SENSOR_DEPTH].running_
  /\ StreamOf(manager[SENSOR_DEPTH]).started
  /\ AllClients(numSubscribers, SENSOR_DEPTH) > 0

\* The calls of tryConfigureVideoMode configure can make on sensor s in the
\* current state: the mode asked for and the device's answers.
ModeCalls(s) ==
  {c \in RequestKeys(s) \X ModeAnswers(s, StreamOf(manager[s])) :
     /\ pc = [sensor |-> s, at |-> "mode"]
     /\ manager[s].class # Base}

\* C2 as stated: tryConfigureVideoMode returns true with the stream in the
\* new mode, or false with the stream in the mode it had before the call,
\* whatever the device answers.
C2_NewModeOrPriorMode ==
  \A s \in Sensors : \A c \in ModeCalls(s) :
    LET old == manager[s].stream_.mode
        r == tryConfigureVideoMode(manager[s], resolutions_[c[1]], c[2])
    IN \/ r.ret /\ r.m.stream_.mode = resolutions_[c[1]]
       \/ ~r.ret /\ r.m.stream_.mode = old

\* C2 amended: tryConfigureVideoMode returns true with the stream in the
\* new mode; or it returns false and, when the device accepted the old mode
\* again, the stream is in the mode it had before the call; when the device
\* rejected the old mode too, an error is logged and the stream is in the
\* mode that rejection left.
C2_NewModeOrRevertAttempted ==
  \A s \in Sensors : \A c \in ModeCalls(s) :
    LET old == manager[s].stream_.mode
        hw == c[2]
        r == tryConfigureVideoMode(manager[s], resolutions_[c[1]], hw)
    IN /\ r.ret = SetVideoModeStatus(manager[s].stream_, hw.set)
       /\ r.ret => r.m.stream_.mode = resolutions_[c[1]] /\ r.log = "none"
       /\ ~r.ret /\ r.log = "none" => r.m.stream_.mode = old
       /\ ~r.ret /\ r.log = "error" =>
            r.m.stream_.mode =
              IF manager[s].stream_.valid THEN hw.left2 ELSE old

\* configure is past the depth mode change and the depth stream is in the
\* disparity mode the request named.
C2_Witness ==
  /\ pc = [sensor |-> SENSOR_DEPTH, at |-> "registration"]
  /\ manager[SENSOR_DEPTH].stream_.mode =
       resolutions_["Camera_DISPARITY_640x480_30Hz"]

\* The device's answers to an endConfigure of sensor s, for the managers
\* that have the method.
RestartCalls(s) ==
  {hw \in RestartAnswers(s) : manager[s].class # Base}

\* beginConfigure and then endConfigure on manager s, nothing in between.
BeginThenEnd(s, hw) ==
  endConfigure(beginConfigure(manager[s]).m, handles[s], hw, registration)

\* C3 as stated: beginConfigure followed at once by endConfigure leaves
\* running_ as it was before beginConfigure.
C3_RunningRestored ==
  pc = Idle =>
    \A s \in Sensors : \A hw \in RestartCalls(s) :
      BeginThenEnd(s, hw).m.running_ = manager[s].running_

\* C3 amended: beginConfigure followed at once by endConfigure leaves a
\* stopped stream stopped without a start, and restarts a running stream;
\* the stream runs afterwards exactly when it ran before and the first start
\* or a recovery trial's start succeeded.  When all of them fail the stream
\* that ran before is left stopped.
C3_RunningRestoredIfRestarted ==
  pc = Idle =>
    \A s \in Sensors : \A hw \in RestartCalls(s) :
      LET e == BeginThenEnd(s, hw)
      IN /\ ~manager[s].running_ =>
              /\ e.starts = 0
              /\ ~e.m.running_ /\ ~e.m.stream_.started
         /\ manager[s].running_ =>
              /\ e.starts >= 1
              /\ e.m.running_ = (e.rc = "ok")
              /\ e.m.stream_.started = (e.rc = "ok")

\* The entries of the round's calls that name sensor s and a method.
Called(s, method) ==
  {i \in 1..Len(calls) : calls[i][1] = s /\ calls[i][2] = method}

\* configure has ended the depth block, the depth stream ran before the
\* block and runs again.
C3_Witness ==
  /\ pc = [sensor |-> SENSOR_IR, at |-> "begin"]
  /\ Called(SENSOR_DEPTH, "endConfigure") # {}
  /\ manager[SENSOR_DEPTH].was_running_
  /\ manager[SENSOR_DEPTH].running_
  /\ manager[SENSOR_DEPTH].stream_.started

\* C4: an endConfigure of a manager whose stream ran before beginConfigure
\* issues one start and, when that fails, at most max_trials recovery
\* trials (destroy, create, start); it makes no trial after a successful
\* start, and then running_ is true; when the first start and all
\* max_trials trials fail, running_ is false and the error is logged.
C4_BoundedRecovery ==
  \A s \in Sensors : \A hw \in RestartCalls(s) :
    (pc = [sensor |-> s, at |-> "end"] /\ manager[s].was_running_) =>
      LET e == endConfigure(manager[s], handles[s], hw, registration)
          first == StartStatus(manager[s].stream_, hw.start)
      IN /\ e.trials <= max_trials
         /\ e.starts = 1 + e.trials
         /\ first => e.trials = 0 /\ e.rc = "ok" /\ e.log = "none"
         /\ e.rc = "ok" =>
              /\ e.m.running_ /\ e.m.stream_.started
              /\ e.trials > 0 => e.log = "recovered"
              /\ \A i \in 1..e.trials - 1 : ~hw.trials[i].start
         /\ e.rc # "ok" =>
              /\ e.rc = "fail" /\ e.trials = max_trials
              /\ ~e.m.running_ /\ ~e.m.stream_.started
              /\ e.log = "error"

\* configure has ended the color block, the color stream ran before the
\* block and every start of endConfigure failed.
C4_Witness ==
  /\ pc = [sensor |-> SENSOR_DEPTH, at |-> "begin"]
  /\ Called(SENSOR_COLOR, "endConfigure") # {}
  /\ manager[SENSOR_COLOR].was_running_
  /\ ~manager[SENSOR_COLOR].running_

\* C5 as stated: every manager of a sensor the device has holds one stream
\* handle, and the device holds that one handle for the sensor.
C5_ExactlyOneHandle ==
  \A s \in Sensors :
    hasSensor[s] => handles[s] = 1 /\ StreamOf(manager[s]).valid

\* C5 amended: the device holds at most one stream handle per sensor, and
\* it is the one the sensor's manager holds: none when the manager holds
\* none, which is so from a failed create (in the constructor, or in a
\* recovery trial after the destroy) until a later create succeeds.
C5_AtMostOneHandleNoOrphan ==
  \A s \in Sensors :
    /\ handles[s] = IF StreamOf(manager[s]).valid THEN 1 ELSE 0
    /\ \A hw \in RestartCalls(s) :
         pc = [sensor |-> s, at |-> "end"] =>
           LET e == endConfigure(manager[s], handles[s], hw, registration)
           IN /\ e.handles = IF e.m.stream_.valid THEN 1 ELSE 0
              /\ e.handles = 0 /\ handles[s] = 1 => ~hw.trials[e.trials].create

\* An endConfigure has destroyed the depth stream that ran before the round
\* and the create of the recovery trial failed: the manager holds no handle.
C5_Witness ==
  /\ Called(SENSOR_DEPTH, "endConfigure") # {}
  /\ manager[SENSOR_DEPTH].was_running_
  /\ ~manager[SENSOR_DEPTH].stream_.valid
  /\ handles[SENSOR_DEPTH] = 0

\* The publisher updateActivePublisher is to select: the registered pair
\* under DEPTH_TO_COLOR and the plain pair otherwise, of the pair the depth
\* publisher for DEPTH_1_MM and the disparity publisher for SHIFT_9_2, and
\* none for any other format.
ExpectedPublisher(format, reg) ==
  CASE format = "DEPTH_1_MM" /\ reg = IMAGE_REGISTRATION_OFF -> "publisher_"
    [] format = "DEPTH_1_MM" /\ reg = IMAGE_REGISTRATION_DEPTH_TO_COLOR ->
         "depth_registered_publisher_"
    [] format = "SHIFT_9_2" /\ reg = IMAGE_REGISTRATION_OFF -> "disparity_publisher_"
    [] format = "SHIFT_9_2" /\ reg = IMAGE_REGISTRATION_DEPTH_TO_COLOR ->
         "disparity_registered_publisher_"
    [] OTHER -> NullPublisher

\* C6: for every pixel format and both registration modes,
\* updateActivePublisher selects publisher_ for DEPTH_1_MM with OFF,
\* depth_registered_publisher_ for DEPTH_1_MM with DEPTH_TO_COLOR,
\* disparity_publisher_ for SHIFT_9_2 with OFF,
\* disparity_registered_publisher_ for SHIFT_9_2 with DEPTH_TO_COLOR and no
\* publisher for any other format; publish hands the record to the selected
\* publisher and drops it when none is selected.
C6_ActivePublisher ==
  manager[SENSOR_DEPTH].class = Depth =>
    \A format \in PixelFormats :
    \A reg \in {IMAGE_REGISTRATION_OFF, IMAGE_REGISTRATION_DEPTH_TO_COLOR} :
      LET m == [manager[SENSOR_DEPTH] EXCEPT !.stream_.mode.format = format]
          u == updateActivePublisher(m, reg)
      IN /\ u.active_publisher_ = ExpectedPublisher(format, reg)
         /\ publish(u) = ExpectedPublisher(format, reg)
         /\ format \notin {"DEPTH_1_MM", "SHIFT_9_2"} => publish(u) = NullPublisher

\* The running depth stream is in a disparity mode under DEPTH_TO_COLOR and
\* the registered disparity publisher is selected.
C6_Witness ==
  /\ manager[SENSOR_DEPTH].class = Depth
  /\ manager[SENSOR_DEPTH].running_
  /\ registration = IMAGE_REGISTRATION_DEPTH_TO_COLOR
  /\ manager[SENSOR_DEPTH].stream_.mode.format = "SHIFT_9_2"
  /\ manager[SENSOR_DEPTH].active_publisher_ = "disparity_registered_publisher_"

\* The round's request flags depth_registration as changed (level & 1) and
\* asks for true, and the device does not support DEPTH_TO_COLOR.
AsksUnsupportedRegistration ==
  Masked(level, 1) /\ request /\ ~supported

\* C7 as stated: when a round that asks for depth registration on a device
\* without DEPTH_TO_COLOR support returns, the cfg handed back has
\* depth_registration false and the registration mode is OFF, whichever
\* sensors the device has.
C7_RegistrationRefused ==
  (pc = Return /\ AsksUnsupportedRegistration) =>
    /\ ~cfg.depth_registration
    /\ registration = IMAGE_REGISTRATION_OFF
    /\ Called("device", "setImageRegistrationMode") = {}

\* C7 where the code meets it: on a device without DEPTH_TO_COLOR support
\* the registration mode is OFF at all times and a round that asks for depth
\* registration never calls setImageRegistrationMode; the cfg it hands back
\* has depth_registration false exactly when the device has a depth sensor
\* (without one the depth block is skipped and the requested true stays).
C7_RegistrationRefusedWithDepth ==
  /\ ~supported => registration = IMAGE_REGISTRATION_OFF
  /\ AsksUnsupportedRegistration =>
       Called("device", "setImageRegistrationMode") = {}
  /\ (pc = Return /\ AsksUnsupportedRegistration) =>
       cfg.depth_registration = ~hasSensor[SENSOR_DEPTH]

\* A round that asked for depth registration on a device without a depth
\* sensor and without DEPTH_TO_COLOR support returns with depth_registration
\* still true.
C7_Witness ==
  /\ pc = Return
  /\ AsksUnsupportedRegistration
  /\ ~hasSensor[SENSOR_DEPTH]
  /\ Called(SENSOR_DEPTH, "beginConfigure") # {}
  /\ Called("device", "setDepthColorSyncEnabled") # {}
  /\ cfg.depth_registration

\* C8 as stated: the handlers of a manager do not run while a frame
\* callback of that manager is between its read of frame_id_ and its read
\* of the publisher: no beginConfigure, tryConfigureVideoMode, endConfigure
\* or onSubscriptionChanged changes the manager under a callback in progress.
C8_HandlersExcludeFrameCallback ==
  [][frame.at = "converted" =>
       manager'[frame.sensor] = manager[frame.sensor]]_vars

\* A depth frame went out with the depth frame id on the registered depth
\* publisher: a round that switched registration on ran between the
\* callback's two reads.
C8_Witness ==
  /\ frame.at = "published"
  /\ frame.sensor = SENSOR_DEPTH
  /\ frame.frame_id = depth_frame_id
  /\ frame.publisher = "depth_registered_publisher_"

\* The sensors whose beginConfigure the round has called, in call order.
BegunSensors ==
  LET begins == SelectSeq(calls, LAMBDA c : c[2] = "beginConfigure")
  IN [i \in 1..Len(begins) |-> begins[i][1]]

\* A sequence is a prefix of another.
IsPrefix(a, b) == Len(a) <= Len(b) /\ \A i \in 1..Len(a) : a[i] = b[i]

\* C9: a round of configure calls beginConfigure on the color, the depth
\* and the infrared manager in this order, ends each block it entered with
\* that manager's endConfigure before the next manager's beginConfigure, and
\* calls setDepthColorSyncEnabled once, as its last call, after all three;
\* no mask, absent sensor, rejected mode or failed restart ends the round
\* earlier.
C9_OrderThenSync ==
  /\ IsPrefix(BegunSensors, <<SENSOR_COLOR, SENSOR_DEPTH, SENSOR_IR>>)
  /\ Called("device", "setDepthColorSyncEnabled") \subseteq {Len(calls)}
  /\ Called("device", "setDepthColorSyncEnabled") # {} => pc = Return
  /\ pc = Return =>
       /\ ~exception
       /\ BegunSensors = <<SENSOR_COLOR, SENSOR_DEPTH, SENSOR_IR>>
       /\ Called("device", "setDepthColorSyncEnabled") = {Len(calls)}
       /\ \A s \in Sensors :
            /\ Cardinality(Called(s, "endConfigure")) = IF hasSensor[s] THEN 1 ELSE 0
            /\ \A i \in Called(s, "endConfigure") :
                 /\ \A j \in Called(s, "beginConfigure") : j < i
                 /\ \A s2 \in Sensors \ {s} :
                      \A j \in Called(s2, "beginConfigure") :
                        (\E k \in Called(s, "beginConfigure") : k < j) => i < j

\* A round on a device without an infrared sensor returns after the sync
\* call, and the depth stream that ran before the round could not be
\* restarted.
C9_Witness ==
  /\ pc = Return
  /\ ~hasSensor[SENSOR_IR]
  /\ Called("device", "setDepthColorSyncEnabled") # {}
  /\ Called(SENSOR_DEPTH, "endConfigure") # {}
  /\ manager[SENSOR_DEPTH].was_running_
  /\ ~manager[SENSOR_DEPTH].running_

\* C10: for a sensor the device does not have, beginConfigure returns false
\* and configure makes no other call on the sensor's manager (no stream(),
\* tryConfigureVideoMode or endConfigure, so no MethodNotSupportedException),
\* whatever the mask; the round goes on to the other sensors and the sync.
C10_AbsentSensorSkipped ==
  /\ ~exception
  /\ \A s \in Sensors :
       ~hasSensor[s] =>
         /\ manager[s].class = Base
         /\ ~beginConfigure(manager[s]).ret
         /\ beginConfigure(manager[s]).m = manager[s]
         /\ \A i \in 1..Len(calls) :
              calls[i][1] = s => calls[i] = <<s, "beginConfigure", FALSE>>
         /\ pc.sensor = s => pc.at = "begin"
         /\ pc = Return =>
              /\ Cardinality(Called(s, "beginConfigure")) = 1
              /\ \A s2 \in Sensors : Called(s2, "beginConfigure") # {}
              /\ Called("device", "setDepthColorSyncEnabled") # {}

\* A round on a device without a color sensor has skipped the color block,
\* configured the depth sensor and returns.
C10_Witness ==
  /\ pc = Return
  /\ ~hasSensor[SENSOR_COLOR]
  /\ hasSensor[SENSOR_DEPTH]
  /\ Called(SENSOR_COLOR, "beginConfigure") # {}
  /\ Called(SENSOR_DEPTH, "endConfigure") # {}
  /\ Called("device", "setDepthColorSyncEnabled") # {}

\* C11: a step of configure on one sensor's manager, whatever the device
\* answers (mode rejected, restart failed, recovery exhausted), changes that
\* manager and the sensor's handles only and is followed by the statement
\* that follows in program order; the steps that can fail (the mode change
\* and endConfigure) leave the registration mode, the mask and cfg as they
\* are.  So the managers of the other sensors go through the same steps from
\* the same state, and end the round with the running state and the video
\* mode they have in the round where the first sensor did not fail.
C11_FailuresStayLocal ==
  [][pc.sensor \in Sensors =>
       /\ \A t \in Sensors \ {pc.sensor} :
            manager'[t] = manager[t] /\ handles'[t] = handles[t]
       /\ numSubscribers' = numSubscribers
       /\ ~exception'
       /\ pc' = IF pc.at = "begin" /\ ~hasSensor[pc.sensor]
                THEN AfterBlock(pc) ELSE Succ(pc)
       /\ pc.at \in {"mode", "end"} =>
            /\ registration' = registration
            /\ level' = level /\ cfg' = cfg]_vars

\* A round returns in which the restart of the color stream and its recovery
\* trial failed, and the depth block after it was entered and ended.
C11_Witness ==
  /\ pc = Return
  /\ Called(SENSOR_COLOR, "endConfigure") # {}
  /\ manager[SENSOR_COLOR].was_running_
  /\ ~manager[SENSOR_COLOR].running_
  /\ Called(SENSOR_DEPTH, "endConfigure") # {}
  /\ \A i \in Called(SENSOR_COLOR, "endConfigure") :
       \A j \in Called(SENSOR_DEPTH, "endConfigure") : i < j

\* The endConfigure calls of the current state that exhaust the recovery:
\* the first start and every trial's start fail.
ExhaustedCalls(s) ==
  {hw \in RestartCalls(s) :
     /\ pc = [sensor |-> s, at |-> "end"]
     /\ endConfigure(manager[s], handles[s], hw, registration).rc = "fail"}

\* The manager of sensor s after the interest-change event e, answered ok by
\* the device, handled by the manager m.
AfterInterestEvent(m, s, e, ok) ==
  onSubscriptionChanged(m, s, Connected(numSubscribers, s, e[1], e[2]), ok,
                        registration).m

\* C12 as stated: after an endConfigure that exhausted the recovery trials
\* the stream stays stopped: the next interest-change event leaves running_
\* false, whatever the device answers.
C12_TerminalAfterExhaustion ==
  \A s \in Sensors : \A hw \in ExhaustedCalls(s) :
    LET e == endConfigure(manager[s], handles[s], hw, registration)
    IN \A ev \in InterestEvents(s), ok \in BOOLEAN :
         ~AfterInterestEvent(e.m, s, ev, ok).running_

\* C12 amended: an endConfigure that exhausted the recovery trials returns
\* with the stream stopped and running_ false, and no later round starts it
\* (beginConfigure records that it did not run).  The state is not terminal:
\* the next interest-change event with subscribers left issues start()
\* again, and the stream runs again exactly when the last trial's create
\* gave it a handle and the device accepts that start.  A manager without a
\* handle never runs.
C12_StoppedUntilNextInterestEvent ==
  /\ \A s \in Sensors :
       ~StreamOf(manager[s]).valid =>
         ~StreamOf(manager[s]).started /\ (hasSensor[s] => ~manager[s].running_)
  /\ \A s \in Sensors : \A hw \in ExhaustedCalls(s) :
       LET e == endConfigure(manager[s], handles[s], hw, registration)
           again == endConfigure(beginConfigure(e.m).m, e.handles, hw, registration)
       IN /\ ~e.m.running_ /\ ~e.m.stream_.started
          /\ again.starts = 0 /\ ~again.m.running_ /\ ~again.m.stream_.started
          /\ \A ev \in InterestEvents(s), ok \in BOOLEAN :
               LET n == AllClients(Connected(numSubscribers, s, ev[1], ev[2]), s)
                   m2 == AfterInterestEvent(e.m, s, ev, ok)
               IN /\ m2.running_ = (n > 0 /\ ok /\ e.m.stream_.valid)
                  /\ m2.stream_.started = m2.running_

\* The depth block has ended with the recovery exhausted: the depth stream
\* that ran before the round has a new handle, is stopped, and its
\* subscriber is still connected.
C12_Witness ==
  /\ pc = [sensor |-> SENSOR_IR, at |-> "begin"]
  /\ Called(SENSOR_DEPTH, "endConfigure") # {}
  /\ manager[SENSOR_DEPTH].was_running_
  /\ ~manager[SENSOR_DEPTH].running_
  /\ manager[SENSOR_DEPTH].stream_.valid
  /\ ~manager[SENSOR_DEPTH].stream_.started
  /\ AllClients(numSubscribers, SENSOR_DEPTH) > 0

\* The frame id updateActivePublisher is to attach: the color sensor's
\* under DEPTH_TO_COLOR, the depth sensor's otherwise.
ExpectedFrameId(reg) ==
  IF reg = IMAGE_REGISTRATION_DEPTH_TO_COLOR THEN rgb_frame_id ELSE depth_frame_id

\* C13 as stated: a depth frame forwarded while the stream is running goes
\* to the publisher, and carries the frame id, that the registration mode
\* and the stream's pixel format select at the moment it is published.
C13_FrameMatchesRouting ==
  [][(/\ frame.at = "converted" /\ frame'.at = "published"
      /\ frame.sensor = SENSOR_DEPTH
      /\ frame'.publisher # NullPublisher
      /\ manager[SENSOR_DEPTH].running_) =>
       /\ frame'.publisher =
            ExpectedPublisher(manager[SENSOR_DEPTH].stream_.mode.format,
                              registration)
       /\ frame'.frame_id = ExpectedFrameId(registration)]_vars

\* C13 for a callback no handler runs under: whenever the depth stream
\* delivers frames, the frame id onNewFrame reads and the publisher publish
\* hands the record to are the ones the registration mode and the pixel
\* format select, and publish names that one publisher only.
C13_UninterruptedFrameMatchesRouting ==
  LET m == manager[SENSOR_DEPTH]
  IN (m.class = Depth /\ m.stream_.started /\ m.stream_.listener) =>
       /\ m.running_
       /\ publish(m) = ExpectedPublisher(m.stream_.mode.format, registration)
       /\ m.frame_id_ = ExpectedFrameId(registration)
       /\ frame.at = "converted" =>
            publish(m) \in Publishers(Depth) \cup {NullPublisher}

\* A depth frame went out on the plain depth publisher with the color
\* sensor's frame id, a pair updateActivePublisher never sets: a round that
\* switched registration off ran under the callback, and the stream runs
\* with registration OFF.
C13_Witness ==
  /\ frame.at = "published"
  /\ frame.sensor = SENSOR_DEPTH
  /\ manager[SENSOR_DEPTH].running_
  /\ registration = IMAGE_REGISTRATION_OFF
  /\ frame.publisher = "publisher_"
  /\ frame.frame_id = rgb_frame_id

\* The active publisher and frame id of depth manager m are the ones the
\* registration mode reg and the stream's pixel format select.
RoutingCurrent(m, reg) ==
  /\ m.active_publisher_ = ExpectedPublisher(m.stream_.mode.format, reg)
  /\ m.frame_id_ = ExpectedFrameId(reg)

\* C14 as stated: the depth manager calls updateActivePublisher after every
\* start and every stop of the stream by onSubscriptionChanged and after
\* every endConfigure.
C14_RerunAfterStartStopEnd ==
  manager[SENSOR_DEPTH].class = Depth =>
    /\ pc = Idle =>
         \A ev \in InterestEvents(SENSOR_DEPTH), ok \in BOOLEAN :
           LET subs == Connected(numSubscribers, SENSOR_DEPTH, ev[1], ev[2])
               r == onSubscriptionChanged(manager[SENSOR_DEPTH], SENSOR_DEPTH,
                                          subs, ok, registration)
           IN r.m.stream_.started # manager[SENSOR_DEPTH].stream_.started =>
                r.updated
    /\ pc = [sensor |-> SENSOR_DEPTH, at |-> "end"] =>
         \A hw \in RestartCalls(SENSOR_DEPTH) :
           endConfigure(manager[SENSOR_DEPTH], handles[SENSOR_DEPTH], hw,
                        registration).updated

\* C14 amended: onSubscriptionChanged and endConfigure of the depth manager
\* call updateActivePublisher exactly when they leave the stream running:
\* after a start that succeeded, on an event that finds the stream running
\* and leaves it so, and after an endConfigure that restarted the stream;
\* not after a stop, a failed start, or an endConfigure that leaves the
\* stream stopped.  The active publisher and the frame id are therefore
\* current whenever the stream runs, and may be stale while it is stopped.
C14_RerunWhenLeftRunning ==
  manager[SENSOR_DEPTH].class = Depth =>
    /\ manager[SENSOR_DEPTH].running_ =>
         RoutingCurrent(manager[SENSOR_DEPTH], registration)
    /\ pc = Idle =>
         \A ev \in InterestEvents(SENSOR_DEPTH), ok \in BOOLEAN :
           LET subs == Connected(numSubscribers, SENSOR_DEPTH, ev[1], ev[2])
               r == onSubscriptionChanged(manager[SENSOR_DEPTH], SENSOR_DEPTH,
                                          subs, ok, registration)
           IN /\ r.updated = r.m.running_
              /\ r.updated => RoutingCurrent(r.m, registration)
              /\ ~r.updated =>
                   /\ ~r.m.stream_.started
                   /\ r.m.active_publisher_ = manager[SENSOR_DEPTH].active_publisher_
                   /\ r.m.frame_id_ = manager[SENSOR_DEPTH].frame_id_
    /\ pc = [sensor |-> SENSOR_DEPTH, at |-> "end"] =>
         \A hw \in RestartCalls(SENSOR_DEPTH) :
           LET e == endConfigure(manager[SENSOR_DEPTH], handles[SENSOR_DEPTH], hw,
                                 registration)
           IN /\ e.updated = e.m.running_
              /\ e.updated => RoutingCurrent(e.m, registration)
              /\ ~e.updated =>
                   /\ ~e.m.stream_.started
                   /\ e.m.active_publisher_ = manager[SENSOR_DEPTH].active_publisher_
                   /\ e.m.frame_id_ = manager[SENSOR_DEPTH].frame_id_

\* The depth block of a round that switched registration on has ended with
\* the stream stopped: the active publisher and the frame id are those of
\* registration OFF.
C14_Witness ==
  /\ pc = [sensor |-> SENSOR_IR, at |-> "begin"]
  /\ Called(SENSOR_DEPTH, "endConfigure") # {}
  /\ Called("device", "setImageRegistrationMode") # {}
  /\ registration = IMAGE_REGISTRATION_DEPTH_TO_COLOR
  /\ ~manager[SENSOR_DEPTH].running_
  /\ manager[SENSOR_DEPTH].active_publisher_ = "publisher_"
  /\ manager[SENSOR_DEPTH].frame_id_ = depth_frame_id

\* One of the four depth topics has a subscriber under the counts subs.
AnyDepthSubscriber(subs) ==
  \E p \in {"publisher_", "disparity_publisher_", "depth_registered_publisher_",
            "disparity_registered_publisher_"} : subs[<<SENSOR_DEPTH, p>>] > 0

\* C15: the depth manager's onSubscriptionChanged decides on the
\* subscribers of all four publishers together: it does not stop a running
\* stream while one of the four has a subscriber, whichever publisher
\* raised the event and whichever is active; it stops it when none has; and
\* it starts a stopped stream as soon as one of them has.
C15_AggregateDecides ==
  pc = Idle =>
    \A ev \in InterestEvents(SENSOR_DEPTH), ok \in BOOLEAN :
      LET m == manager[SENSOR_DEPTH]
          subs == Connected(numSubscribers, SENSOR_DEPTH, ev[1], ev[2])
          r == onSubscriptionChanged(m, SENSOR_DEPTH, subs, ok, registration)
      IN /\ (m.running_ /\ AnyDepthSubscriber(subs)) =>
              /\ r.m.running_ /\ r.m.stream_.started
              /\ r.rc = "none"
         /\ (m.running_ /\ ~AnyDepthSubscriber(subs)) =>
              ~r.m.running_ /\ ~r.m.stream_.started
         /\ (~m.running_ /\ AnyDepthSubscriber(subs)) => r.rc # "none"
         /\ (~m.running_ /\ ~AnyDepthSubscriber(subs)) =>
              r.rc = "none" /\ ~r.m.running_

\* The depth stream runs with publisher_ active and without a subscriber
\* of publisher_: its one subscriber is a subscriber of another depth topic.
C15_Witness ==
  /\ pc = Idle
  /\ manager[SENSOR_DEPTH].running_
  /\ manager[SENSOR_DEPTH].stream_.started
  /\ manager[SENSOR_DEPTH].active_publisher_ = "publisher_"
  /\ numSubscribers[<<SENSOR_DEPTH, "publisher_">>] = 0
  /\ numSubscribers[<<SENSOR_DEPTH, "disparity_registered_publisher_">>] = 1

\* C16 as stated: a sensor's block of configure whose resolution bit is
\* not set (beginConfigure, no tryConfigureVideoMode, endConfigure) leaves
\* the stream in the video mode it had before the block, whatever the
\* device answers to the restart; a manager left without a stream has no
\* video mode to compare.
C16_ModeKeptWithoutBit ==
  \A s \in Sensors : \A hw \in RestartCalls(s) :
    pc = [sensor |-> s, at |-> "begin"] =>
      LET e == BeginThenEnd(s, hw)
      IN e.m.stream_.valid => e.m.stream_.mode = manager[s].stream_.mode

\* C16 for the rounds without a recovery trial: the block without the
\* resolution bit leaves the video mode as it was when endConfigure makes
\* no recovery trial (the stream was stopped, or its first start
\* succeeded).  After a recovery trial the stream is the one the last trial
\* created, in the mode it came up in, or no stream when the create failed.
C16_ModeKeptWithoutRecovery ==
  \A s \in Sensors : \A hw \in RestartCalls(s) :
    pc = [sensor |-> s, at |-> "begin"] =>
      LET e == BeginThenEnd(s, hw)
      IN /\ e.trials = 0 => e.m.stream_.mode = manager[s].stream_.mode
         /\ e.trials > 0 =>
              e.m.stream_.mode = IF hw.trials[e.trials].create
                                 THEN hw.trials[e.trials].native
                                 ELSE NoStream.mode

\* configure is about to run the depth block on a running stream that is
\* in a mode the program has set and a new stream does not come up in.
C16_Witness ==
  /\ pc = [sensor |-> SENSOR_DEPTH, at |-> "begin"]
  /\ manager[SENSOR_DEPTH].class = Depth
  /\ manager[SENSOR_DEPTH].running_
  /\ manager[SENSOR_DEPTH].stream_.started
  /\ manager[SENSOR_DEPTH].stream_.mode = resolutions_["Camera_DEPTH_640x480_30Hz"]
  /\ manager[SENSOR_DEPTH].stream_.mode \notin NativeModes(SENSOR_DEPTH)

\* The destructor of a manager unregisters the frame listener, then stops
\* the stream, then destroys it: when it stops the stream the listener is
\* gone, when it destroys the stream the listener is gone and the stream is
\* stopped, and from then on the manager holds no handle and the device
\* none for the sensor.
TeardownInOrder ==
  \A s \in Sensors :
    manager[s].class # Base =>
      /\ (pc = [sensor |-> s, at |-> "~removeNewFrameListener"] /\ hasSensor[s]) =>
           handles[s] = IF manager[s].stream_.valid THEN 1 ELSE 0
      /\ pc = [sensor |-> s, at |-> "~stop"] => ~manager[s].stream_.listener
      /\ pc = [sensor |-> s, at |-> "~destroy"] =>
           ~manager[s].stream_.listener /\ ~manager[s].stream_.started
      /\ (\/ pc = [sensor |-> s, at |-> "~shutdown"]
          \/ /\ pc.at \in {"~removeNewFrameListener", "~stop", "~destroy",
                           "~shutdown", "close", "closed"}
             /\ TeardownIndex(pc) > TeardownIndex([sensor |-> s, at |-> "~shutdown"]))
           => ~manager[s].stream_.valid /\ handles[s] = 0

\* C17 as stated: a stream handle is destroyed at teardown only, so no
\* endConfigure destroys the handle its manager holds; and teardown
\* unregisters, stops and destroys in that order.
C17_DestroyedAtTeardownOnly ==
  /\ TeardownInOrder
  /\ \A s \in Sensors : \A hw \in RestartCalls(s) :
       (pc = [sensor |-> s, at |-> "end"] /\ manager[s].stream_.valid) =>
         endConfigure(manager[s], handles[s], hw, registration).trials = 0

\* C17 amended: every stream handle is destroyed exactly once, by the
\* recovery trial that replaces it or by the manager's destructor: the
\* device never holds more than the one handle the manager holds, a
\* recovery trial destroys the handle the manager held before it creates
\* another, and no handle is left when the destructor has run.  The
\* destructor unregisters, stops and destroys in that order.
C17_DestroyedOnceInOrder ==
  /\ TeardownInOrder
  /\ \A s \in Sensors :
       /\ handles[s] = IF StreamOf(manager[s]).valid THEN 1 ELSE 0
       /\ pc = Closed => handles[s] = 0
       /\ \A hw \in RestartCalls(s) :
            pc = [sensor |-> s, at |-> "end"] =>
              LET e == endConfigure(manager[s], handles[s], hw, registration)
                  last == hw.trials[e.trials]
              IN e.trials > 0 =>
                   e.handles = IF last.create THEN 1 ELSE 0

\* The destructor of CameraImpl has run on a device with a depth sensor
\* whose stream a round of configure had found running: no handle is left.
C17_Witness ==
  /\ pc = Closed
  /\ hasSensor[SENSOR_DEPTH]
  /\ manager[SENSOR_DEPTH].was_running_
  /\ ~manager[SENSOR_DEPTH].stream_.valid
  /\ \A s \in Sensors : handles[s] = 0

\* C18: every round of configure terminates whatever the device answers.
\* A round that has started reaches device_.setDepthColorSyncEnabled(true)
\* and the program is idle again and again; in a round there is always a
\* next statement to execute (no deadlock), every statement is followed by
\* a later one of the program (no retry of a statement), the round returns
\* from the sync statement only, and an endConfigure that restarts a stream
\* returns after a successful start or after max_trials failed trials.
C18_RoundTerminates ==
  /\ (pc = Program[1]) ~> (pc = [sensor |-> "device", at |-> "sync"])
  /\ []<>(pc = Idle)
  /\ [](pc # Idle => ENABLED ConfigureStep)
  /\ [](\A s \in Sensors : \A hw \in RestartCalls(s) :
          (pc = [sensor |-> s, at |-> "end"] /\ manager[s].was_running_) =>
            LET e == endConfigure(manager[s], handles[s], hw, registration)
            IN \/ e.rc = "ok" /\ e.trials <= max_trials
               \/ e.rc = "fail" /\ e.trials = max_trials)
  /\ [][pc # Idle =>
          \/ pc = Return /\ pc' = Idle
          \/ /\ pc' # Idle
             /\ Index(pc') > Index(pc)
             /\ pc' = Return =>
                  /\ pc = [sensor |-> "device", at |-> "sync"]
                  /\ ~exception']_vars

\* A round has returned normally after an endConfigure of the depth manager
\* whose first start and recovery trials all failed.
C18_Witness ==
  /\ pc = Return
  /\ ~exception
  /\ Called("device", "setDepthColorSyncEnabled") # {}
  /\ Called(SENSOR_DEPTH, "endConfigure") # {}
  /\ manager[SENSOR_DEPTH].was_running_
  /\ ~manager[SENSOR_DEPTH].running_

\* C19 as stated: the stream a manager holds when endConfigure returns is
\* in the video mode the manager's stream was in when endConfigure was
\* called, whatever the device answers to the start and to the recovery
\* trials.
C19_ModeKeptByEndConfigure ==
  \A s \in Sensors : \A hw \in RestartCalls(s) :
    pc = [sensor |-> s, at |-> "end"] =>
      LET e == endConfigure(manager[s], handles[s], hw, registration)
      IN e.m.stream_.valid => e.m.stream_.mode = manager[s].stream_.mode

\* C19 on the paths that keep the handle: an endConfigure that makes no
\* recovery trial returns with the same stream in the same video mode.  One
\* that makes a trial returns with the stream its last trial created, which
\* is in the mode the device gave it, and with no stream when that create
\* failed: endConfigure never sets a video mode.
C19_ModeKeptWithHandle ==
  \A s \in Sensors : \A hw \in RestartCalls(s) :
    pc = [sensor |-> s, at |-> "end"] =>
      LET e == endConfigure(manager[s], handles[s], hw, registration)
          last == hw.trials[e.trials]
      IN /\ e.trials = 0 =>
              /\ e.m.stream_.mode = manager[s].stream_.mode
              /\ e.m.stream_.valid = manager[s].stream_.valid
         /\ e.trials > 0 =>
              /\ e.m.stream_.valid = last.create
              /\ last.create => e.m.stream_.mode = last.native
              /\ e.m.stream_.mode \in NativeModes(s) \cup {NoStream.mode}

\* configure is about to call endConfigure on the depth manager, whose
\* stream ran before the round and is in the disparity mode, which only a
\* tryConfigureVideoMode can have set.
C19_Witness ==
  /\ pc = [sensor |-> SENSOR_DEPTH, at |-> "end"]
  /\ manager[SENSOR_DEPTH].class = Depth
  /\ manager[SENSOR_DEPTH].was_running_
  /\ manager[SENSOR_DEPTH].stream_.valid
  /\ manager[SENSOR_DEPTH].stream_.mode = resolutions_["Camera_DISPARITY_640x480_30Hz"]

\* C20 as stated: with interest events handled between a manager's
\* beginConfigure and endConfigure, endConfigure is never called on a
\* started stream it will start again, and the stream does not run after
\* endConfigure without a subscriber of the manager's topics.
C20_NoBadStateFromInterleaving ==
  \A s \in Sensors : \A hw \in RestartCalls(s) :
    pc = [sensor |-> s, at |-> "end"] =>
      LET e == endConfigure(manager[s], handles[s], hw, registration)
      IN /\ ~(manager[s].was_running_ /\ manager[s].stream_.started)
         /\ e.m.running_ => AllClients(numSubscribers, s) > 0

\* C20, what the handlers keep between beginConfigure and endConfigure: a
\* stream started inside the block was started by an interest event that
\* saw a subscriber, and running_ says so; a stream that runs without a
\* subscriber after endConfigure was started by endConfigure's own restart
\* of a stream that ran before the round; and endConfigure leaves a stream
\* that did not run before the round as the events left it.
C20_BadStateOnlyFromRestart ==
  \A s \in Sensors : \A hw \in RestartCalls(s) :
    pc = [sensor |-> s, at |-> "end"] =>
      LET e == endConfigure(manager[s], handles[s], hw, registration)
      IN /\ manager[s].stream_.started =>
              manager[s].running_ /\ AllClients(numSubscribers, s) > 0
         /\ (e.m.running_ /\ AllClients(numSubscribers, s) = 0) =>
              /\ manager[s].was_running_ /\ ~manager[s].running_
              /\ e.starts >= 1
         /\ ~manager[s].was_running_ =>
              /\ e.starts = 0
              /\ e.m.stream_ = manager[s].stream_
              /\ e.m.running_ = manager[s].running_

\* configure is about to call endConfigure on the depth manager, whose
\* stream ran before beginConfigure and has been started again by an
\* interest event since.
C20_Witness ==
  /\ pc = [sensor |-> SENSOR_DEPTH, at |-> "end"]
  /\ manager[SENSOR_DEPTH].was_running_
  /\ manager[SENSOR_DEPTH].running_
  /\ manager[SENSOR_DEPTH].stream_.started

\* The statements of a sensor's block that change a setting of the stream:
\* the video mode, the registration mode, and the exposure, white balance
\* and mirroring settings.
MutatingStages == {"mode", "registration", "settings"}

\* C21: with the callbacks handled one at a time, every setting a round
\* applies to a sensor is applied while that sensor's stream is stopped.
\* At every mutating statement of a sensor's block the stream is not
\* started and running_ is false, before and after the statement; the video
\* mode of a stream changes only at the block's tryConfigureVideoMode or in
\* its endConfigure (a recovery trial's new stream), and the registration
\* mode only at the depth block's registration statement; and in a round a
\* stream is started by its own block's endConfigure only, which follows
\* the last mutating statement.
C21_MutationsWhileStopped ==
  /\ [](\A s \in Sensors :
          (pc.sensor = s /\ pc.at \in MutatingStages) =>
            /\ ~manager[s].running_
            /\ ~manager[s].stream_.started)
  /\ [][\A s \in Sensors :
          manager[s].class # Base =>
            /\ (pc.sensor = s /\ pc.at \in MutatingStages) =>
                 /\ ~manager'[s].running_
                 /\ ~manager'[s].stream_.started
                 /\ pc'.sensor = s
                 /\ Index(pc') > Index(pc)
            /\ manager'[s].stream_.mode # manager[s].stream_.mode =>
                 /\ pc.sensor = s /\ pc.at \in {"mode", "end"}
                 /\ ~manager[s].stream_.started
            /\ (pc # Idle /\ manager'[s].stream_.started
                /\ ~manager[s].stream_.started) =>
                 /\ pc = [sensor |-> s, at |-> "end"]
                 /\ manager[s].was_running_
            /\ registration' # registration =>
                 /\ pc = [sensor |-> SENSOR_DEPTH, at |-> "registration"]
                 /\ ~manager[SENSOR_DEPTH].stream_.started]_vars

\* A round that sets the registration mode has set DEPTH_TO_COLOR and is
\* about to apply the stream settings of the depth sensor, whose stream ran
\* before the round, is in the disparity mode and is stopped.
C21_Witness ==
  /\ pc = [sensor |-> SENSOR_DEPTH, at |-> "settings"]
  /\ manager[SENSOR_DEPTH].class = Depth
  /\ Masked(level, 1) /\ cfg.depth_registration
  /\ registration = IMAGE_REGISTRATION_DEPTH_TO_COLOR
  /\ manager[SENSOR_DEPTH].was_running_
  /\ ~manager[SENSOR_DEPTH].running_
  /\ ~manager[SENSOR_DEPTH].stream_.started
  /\ manager[SENSOR_DEPTH].stream_.mode = resolutions_["Camera_DISPARITY_640x480_30Hz"]

==========================================================================
